---- MODULE Spec2Model ----
(***************************************************************************)
(* CommitBot: the staged-change analyzer and the commit write of           *)
(* GitAnalyzer (src/src/git_analyzer.py), the tool-calling conversation of *)
(* GitCommitAgent (src/src/git_commit_agent.py) and the command-line run   *)
(* (src/src/main.py), as one state machine.                                *)
(*                                                                         *)
(* Representation of Python values:                                        *)
(*   None            the record PyNone                                     *)
(*   a reply text    Str(lines): lines is the text split at "\n", a line   *)
(*                   is a sequence of tokens.  The tokens ":",             *)
(*                   "analyze_changes" and "format_commit_message" stand   *)
(*                   for those substrings; any other token is a word that  *)
(*                   contains none of them.  "" is Str(<< <<>> >>).        *)
(*   a diff text     a sequence of characters (one-character strings)      *)
(*   a path          the sequence of its "."-separated segments            *)
(*   an f-string     a record naming the template and the values put in it *)
(***************************************************************************)
EXTENDS Integers, Sequences, FiniteSets, TLC

VARIABLES
    head_valid,            \* repo.head is valid: the repository has commits
    index_diff_raises,     \* repo.index.diff("HEAD") raises
    index,                 \* the staged index: a sequence of staged entries
    untracked_files,       \* repo.untracked_files
    staged_changes,        \* the last result of GitAnalyzer.get_staged_changes
    git_analysis,          \* the last result of GitAnalyzer.analyze_changes
    analyzed_changes,      \* the changes that analyze_changes call enumerated (its local `changes`)
    agent_analysis,        \* the last call of GitCommitAgent.analyze_changes: argument and result
    api_type,              \* GitCommitAgent.api_type
    conversation_history,  \* GitCommitAgent.conversation_history
    changes_arg,           \* the `changes` argument of the running decide_next_action
    pc,                    \* "idle" | "awaiting" (a provider call is blocking) | "done"
    requests,              \* the provider requests issued by the running invocation
    last_reply,            \* the provider's last reply, as received on the wire
    response,              \* the last value returned by _call_ai_api
    result,                \* the value returned by decide_next_action
    error_reported,        \* the except branch of decide_next_action printed the error
    call_failed,           \* a provider call of the running invocation raised
    invocations,           \* number of decide_next_action invocations started
    replaced_history,      \* length of the history the running invocation replaced (line 221)
    commit_outcome,        \* what repo.index.commit did in the last call: "none" | "written" | "raises"
    commit_returns,        \* how each commit_changes call ended, oldest first: "True" | "False" | "raised"
    committed,             \* the commits written by commit_changes, oldest first
    dry_run,               \* the --dry-run flag of main
    main_end,              \* how the run of main ended: "running" | "exit" | "uncaught" | "awaiting"
    main_console,          \* what main printed, in order
    analyze_pc             \* GitAnalyzer.analyze_changes: "idle" | "enumerated" (line 90 done)

vars == << head_valid, index_diff_raises, index, untracked_files, staged_changes,
           git_analysis, analyzed_changes, agent_analysis, api_type, conversation_history, changes_arg, pc, requests,
           last_reply, response, result, error_reported, call_failed, invocations,
           replaced_history, commit_outcome, commit_returns, committed,
           dry_run, main_end, main_console, analyze_pc >>

repo_vars == << head_valid, index_diff_raises, index, untracked_files >>
analyzer_vars == << staged_changes, git_analysis, analyzed_changes, agent_analysis,
                   analyze_pc >>
agent_vars == << api_type, conversation_history, changes_arg, pc, requests,
                 last_reply, response, result, error_reported, call_failed,
                 invocations, replaced_history >>
commit_vars == << commit_outcome, commit_returns, committed >>
main_vars == << dry_run, main_end, main_console >>

----------------------------------------------------------------------------
(* Bounds of the model *)

\* Provider calls of one invocation that are recorded one by one; the code
\* itself has no limit, further rounds leave the recorded prefix as it is.
MaxCalls == 3
\* decide_next_action invocations on one agent
MaxInvocations == 2
\* staged files in the index
MaxFiles == 3

\* commit_changes calls on one repository
MaxCommits == 2

MaxHistory == 2 * MaxCalls + 2

----------------------------------------------------------------------------
(* Python values *)

PyNone == [kind |-> "None"]
Str(lines) == [kind |-> "str", lines |-> lines]
EmptyStr == Str(<< <<>> >>)

\* `name in text`
Contains(text, name) ==
    \E i \in DOMAIN text.lines : \E j \in DOMAIN text.lines[i] : text.lines[i][j] = name

\* string concatenation: the last line of a continues with the first line of b
Cat(a, b) ==
    Str(SubSeq(a.lines, 1, Len(a.lines) - 1)
        \o << a.lines[Len(a.lines)] \o b.lines[1] >>
        \o Tail(b.lines))

RECURSIVE DropLeadingBlank(_)
DropLeadingBlank(ls) ==
    IF ls # <<>> /\ Head(ls) = <<>> THEN DropLeadingBlank(Tail(ls)) ELSE ls

RECURSIVE DropTrailingBlank(_)
DropTrailingBlank(ls) ==
    IF ls # <<>> /\ ls[Len(ls)] = <<>>
    THEN DropTrailingBlank(SubSeq(ls, 1, Len(ls) - 1))
    ELSE ls

\* text.strip().split('\n')
StripSplitLines(text) ==
    LET ls == DropTrailingBlank(DropLeadingBlank(text.lines))
    IN  IF ls = <<>> THEN << <<>> >> ELSE ls

\* line.split(sep)
RECURSIVE Split(_, _)
Split(line, sep) ==
    IF \A i \in DOMAIN line : line[i] # sep
    THEN << line >>
    ELSE LET k == CHOOSE i \in DOMAIN line :
                     line[i] = sep /\ \A j \in 1..(i - 1) : line[j] # sep
         IN  << SubSeq(line, 1, k - 1) >> \o Split(SubSeq(line, k + 1, Len(line)), sep)

\* repr of a text inside str(content): one line, the newlines escaped
RECURSIVE FlattenLines(_)
FlattenLines(ls) ==
    IF Len(ls) = 1 THEN ls[1] ELSE ls[1] \o << "\\n" >> \o FlattenLines(Tail(ls))

RECURSIVE ReprBlocks(_)
ReprBlocks(blocks) ==
    IF blocks = <<>> THEN <<>>
    ELSE << "TextBlock(text=" >> \o FlattenLines(Head(blocks).text.lines) \o << ")" >>
         \o ReprBlocks(Tail(blocks))

\* str(content) of a list of TextBlocks
StrOfContent(blocks) == Str(<< << "[" >> \o ReprBlocks(blocks) \o << "]" >> >>)

\* JSON documents: a string that json.loads rejects, or the dump of a value
BadJson == [kind |-> "json", valid |-> FALSE]
JsonDumps(v) == [kind |-> "json", valid |-> TRUE, value |-> v]
JsonObject(keys, get) == [kind |-> "object", keys |-> keys, get |-> get]
JsonArray == [kind |-> "array"]

----------------------------------------------------------------------------
(* GitCommitAgent: requests, replies and the handling of a reply *)

ApiTypes == {"openai", "anthropic", "local"}

\* the names declared by get_available_functions
AvailableFunctions == << "analyze_changes", "format_commit_message" >>

\* a key that a message or a request does not have
Absent == [kind |-> "absent"]

FunctionCall(name, arguments) ==
    [kind |-> "function_call", name |-> name, arguments |-> arguments]

\* function_call={"name": ...} as passed to _call_ai_api
ToolChoice(name) == [kind |-> "tool_choice", name |-> name]

\* the change-type labels of _prepare_changes_summary
ChangeTypeDesc(t) ==
    CASE t = "M" -> "Modified existing file"
      [] t = "A" -> "New file"
      [] t = "D" -> "Deleted file"
      [] t = "R" -> "Renamed file"
      [] t = "T" -> "Type changed"
      [] OTHER -> t

SummaryEntry(change) ==
    [path |-> change.path,
     status |-> ChangeTypeDesc(change.change_type),
     additions |-> change.additions,
     deletions |-> change.deletions,
     file_type |-> change.file_type,
     diff |-> change.diff]

\* the summary string: one block per change, the diff text included, then
\* the untracked files when there are any
PrepareChangesSummaryNoDiff(changes, untracked) ==
    [kind |-> "changes_summary",
     entries |-> [i \in DOMAIN changes |->
                     [SummaryEntry(changes[i]) EXCEPT !.diff = <<>>]],
     untracked |-> untracked]

PrepareChangesSummary(changes, untracked) ==
    [kind |-> "changes_summary",
     entries |-> [i \in DOMAIN changes |-> SummaryEntry(changes[i])],
     untracked |-> untracked]

Message(role, content, function_call) ==
    [role |-> role, content |-> content, function_call |-> function_call]

SystemMessage == Message("system", [kind |-> "commit_rules"], Absent)

InitialUserMessage(changes, untracked) ==
    Message("user",
            [kind |-> "analyze_prompt",
             summary |-> PrepareChangesSummary(changes, untracked)],
            Absent)

InitialHistoryKept(changes, untracked) ==
    conversation_history \o << SystemMessage, InitialUserMessage(changes, untracked) >>

InitialHistory(changes, untracked) ==
    << SystemMessage, InitialUserMessage(changes, untracked) >>

\* the tool choice decide_next_action passes with its call
FirstToolChoice == ToolChoice("analyze_changes")

\* the tool choice _continue_conversation passes with its call
ContinueToolChoiceAnalyze == ToolChoice("analyze_changes")

ContinueToolChoice == ToolChoice("format_commit_message")

\* the single prompt string of the Anthropic branch: the system, user and
\* assistant messages, each under its label; other roles are left out
RECURSIVE ConvertToAnthropicPrompt(_)
ConvertToAnthropicPrompt(messages) ==
    IF messages = <<>> THEN <<>>
    ELSE LET msg == Head(messages)
             label == CASE msg.role = "system" -> << "System" >>
                        [] msg.role = "user" -> << "Human" >>
                        [] msg.role = "assistant" -> << "Assistant" >>
                        [] OTHER -> <<>>
         IN  [i \in DOMAIN label |-> [label |-> label[i], content |-> msg.content]]
             \o ConvertToAnthropicPrompt(Tail(messages))

\* the request _call_ai_api hands to the client: chat.completions.create with
\* the functions and the function_call on the 'openai' branch, messages.create
\* with one user message and neither of them on the other branch
ApiRequest(api, messages, function_call) ==
    IF api = "openai"
    THEN [endpoint |-> "chat.completions",
          messages |-> messages,
          functions |-> AvailableFunctions,
          function_call |-> function_call]
    ELSE [endpoint |-> "messages",
          messages |-> << Message("user",
                                  [kind |-> "prompt",
                                   parts |-> ConvertToAnthropicPrompt(messages)],
                                  Absent) >>,
          functions |-> <<>>,
          function_call |-> Absent]

Response(content, function_call) == [content |-> content, function_call |-> function_call]

\* _parse_anthropic_response on a list of TextBlocks
ParseAnthropicResponse(content) ==
    IF content = <<>>
    THEN \* content[0] raises IndexError: the except branch
         Response(StrOfContent(content), PyNone)
    ELSE LET text == content[1].text
             lines == StripSplitLines(text)
             parts == Split(lines[1], ":")
         IN  IF Contains(text, "analyze_changes")
             THEN Response(text,
                           FunctionCall("analyze_changes",
                                        JsonDumps(JsonObject({"changes"},
                                                  [k \in {"changes"} |-> JsonArray]))))
             ELSE IF Contains(text, "format_commit_message")
             THEN IF Len(parts) < 2
                  THEN \* first_line.split(':')[1] raises IndexError: the except branch
                       Response(StrOfContent(content), PyNone)
                  ELSE Response(text,
                           FunctionCall("format_commit_message",
                               JsonDumps(JsonObject({"type", "description", "details"},
                                   [k \in {"type", "description", "details"} |->
                                       CASE k = "type" -> Str(<< parts[1] >>)
                                         [] k = "description" -> Str(<< parts[2] >>)
                                         [] OTHER ->
                                              IF Len(lines) > 3
                                              THEN Str(SubSeq(lines, 4, Len(lines)))
                                              ELSE EmptyStr]))))
             ELSE Response(text, PyNone)

\* what _call_ai_api returns for a reply of the client
CallResult(api, reply) ==
    IF api = "openai"
    THEN Response(reply.content, reply.function_call)
    ELSE ParseAnthropicResponse(reply.content)

FormatCommitMessageOneBlank(args) ==
    Cat(Cat(Cat(Cat(args.get["type"], Str(<< << ":" >> >>)),
                args.get["description"]),
            Str(<< <<>>, <<>>, <<>> >>)),
        args.get["details"])

\* f"{type}: {description}\n\n\n{details}"
FormatCommitMessage(args) ==
    Cat(Cat(Cat(Cat(args.get["type"], Str(<< << ":" >> >>)),
                args.get["description"]),
            Str(<< <<>>, <<>>, <<>>, <<>> >>)),
        args.get["details"])

Return(v) == [kind |-> "return", value |-> v]
Raise == [kind |-> "raise"]
Continue == [kind |-> "continue"]

\* _handle_ai_response up to its return, its raise or its call of
\* _continue_conversation
HandleAiResponse(resp) ==
    LET fc == resp.function_call
    IN  IF fc = PyNone THEN Return(resp.content)
        ELSE IF ~fc.arguments.valid THEN Raise            \* json.loads raises
        ELSE IF fc.name = "analyze_changes" THEN Continue
        ELSE IF fc.name = "format_commit_message"
        THEN LET args == fc.arguments.value
             IN  IF args.kind = "object" /\ {"type", "description", "details"} \subseteq args.keys
                 THEN Return(FormatCommitMessage(args))
                 ELSE Raise                               \* KeyError or TypeError
        ELSE Return(PyNone)

\* the except branch of decide_next_action: the error is printed, None returned
ExceptBranchSilent == [result |-> EmptyStr, reported |-> FALSE, pc |-> "done"]

ExceptBranchPartial == [result |-> response.content, reported |-> TRUE, pc |-> "done"]

ExceptBranch == [result |-> PyNone, reported |-> TRUE, pc |-> "done"]

----------------------------------------------------------------------------
(* GitCommitAgent.analyze_changes and the message built from its result *)

MajorThreshold == 50

EmptyDict == [k \in {} |-> 0]

EmptyAnalysisStale ==
    [file_types |-> {},
     total_additions |-> 1,
     total_deletions |-> 0,
     changes_by_type |-> ("M" :> 1),
     major_changes |-> <<>>,
     files_changed |-> <<>>]

EmptyAnalysis ==
    [file_types |-> {},
     total_additions |-> 0,
     total_deletions |-> 0,
     changes_by_type |-> EmptyDict,
     major_changes |-> <<>>,
     files_changed |-> <<>>]

CountUp(dict, key) ==
    IF key \in DOMAIN dict
    THEN [dict EXCEPT ![key] = @ + 1]
    ELSE dict @@ (key :> 1)

\* the body of the loop over the changes
AgentAccumulate(analysis, change) ==
    [analysis EXCEPT
        !.file_types = @ \cup {change.file_type},
        !.total_additions = @ + change.additions,
        !.total_deletions = @ + change.deletions,
        !.files_changed = Append(@, [path |-> change.path,
                                     change_type |-> change.change_type,
                                     changes |-> << change.additions, change.deletions >>]),
        !.changes_by_type = CountUp(@, change.change_type),
        !.major_changes = IF change.additions + change.deletions > MajorThreshold
                          THEN Append(@, change.path) ELSE @]

RECURSIVE AgentAnalyzeLoop(_, _, _)
AgentAnalyzeLoop(changes, i, analysis) ==
    IF i > Len(changes) THEN analysis
    ELSE AgentAnalyzeLoop(changes, i + 1, AgentAccumulate(analysis, changes[i]))

AgentAnalyzeChanges(changes) == AgentAnalyzeLoop(changes, 1, EmptyAnalysis)

AnalysisMessageTool(analysis) ==
    Message("tool",
            [kind |-> "analysis_prompt",
             files_modified |-> Len(analysis.files_changed),
             total_additions |-> analysis.total_additions,
             total_deletions |-> analysis.total_deletions,
             file_types |-> analysis.file_types,
             change_types |-> analysis.changes_by_type,
             major_changes |-> analysis.major_changes],
            Absent)

\* the user message _continue_conversation appends
AnalysisMessage(analysis) ==
    Message("user",
            [kind |-> "analysis_prompt",
             files_modified |-> Len(analysis.files_changed),
             total_additions |-> analysis.total_additions,
             total_deletions |-> analysis.total_deletions,
             file_types |-> analysis.file_types,
             change_types |-> analysis.changes_by_type,
             major_changes |-> analysis.major_changes],
            Absent)

----------------------------------------------------------------------------
(* GitAnalyzer *)

\* the lines joined with "\n", as one sequence of characters
RECURSIVE JoinLines(_)
JoinLines(ls) ==
    IF ls = <<>> THEN <<>>
    ELSE IF Len(ls) = 1 THEN ls[1]
    ELSE ls[1] \o << "\n" >> \o JoinLines(Tail(ls))

\* s.count(sub): the occurrences of sub in s, left to right, not overlapping:
\* the search resumes behind each occurrence found
RECURSIVE CountFrom(_, _, _)
CountFrom(s, sub, i) ==
    LET found == { j \in i..(Len(s) - Len(sub) + 1) :
                     \A k \in 1..Len(sub) : s[j + k - 1] = sub[k] }
    IN  IF found = {} THEN 0
        ELSE 1 + CountFrom(s, sub, (CHOOSE j \in found : \A m \in found : j <= m) + Len(sub))

Count(s, sub) == CountFrom(s, sub, 1)

\* path.split('.')[-1] if '.' in path else 'unknown'
FileType(path) == IF Len(path) > 1 THEN path[Len(path)] ELSE "unknown"

\* the change type get_staged_changes derives from the flags of a diff entry
NativeChangeType(entry) ==
    IF entry.new_file THEN "A"
    ELSE IF entry.deleted_file THEN "D"
    ELSE IF entry.renamed THEN "R"
    ELSE "M"

\* the change type of the new-repository branch: 'M' when the lookup of the path
\* in repo.head.commit.tree succeeds, 'A' when it raises KeyError (no such path)
\* or ValueError (no HEAD commit)
TreeLookupChangeTypeModified(entry) == "M"

TreeLookupChangeType(entry) ==
    IF head_valid /\ entry.in_head_tree THEN "M" ELSE "A"

ChangeInfo(entry, change_type) ==
    [path |-> entry.path,
     change_type |-> change_type,
     additions |-> Count(entry.diff, << "\n", "+" >>),
     deletions |-> Count(entry.diff, << "\n", "-" >>),
     diff |-> entry.diff,
     file_type |-> FileType(entry.path)]

RECURSIVE StagedChangesLoopAbort(_, _)
StagedChangesLoopAbort(entries, new_repo_branch) ==
    IF entries = <<>> THEN <<>>
    ELSE LET e == Head(entries)
         IN  IF e.diff_raises THEN <<>>
             ELSE << ChangeInfo(e, IF new_repo_branch
                                   THEN TreeLookupChangeType(e)
                                   ELSE NativeChangeType(e)) >>
                  \o StagedChangesLoopAbort(Tail(entries), new_repo_branch)

\* get_staged_changes: the loop over repo.index.diff("HEAD") when that call
\* succeeds, else the loop over the staged file names; an entry whose diff
\* retrieval raises is skipped
RECURSIVE StagedChangesLoop(_, _)
StagedChangesLoop(entries, new_repo_branch) ==
    IF entries = <<>> THEN <<>>
    ELSE LET e == Head(entries)
             rest == StagedChangesLoop(Tail(entries), new_repo_branch)
         IN  IF e.diff_raises THEN rest
             ELSE << ChangeInfo(e, IF new_repo_branch
                                   THEN TreeLookupChangeType(e)
                                   ELSE NativeChangeType(e)) >> \o rest

GetStagedChangesResult == StagedChangesLoop(index, index_diff_raises)

\* GitAnalyzer._prepare_changes_summary, which enumerates the staged changes itself
GitPrepareChangesSummary ==
    PrepareChangesSummary(GetStagedChangesResult, untracked_files)

GitAccumulateNoDeletions(analysis, change) ==
    [analysis EXCEPT
        !.file_types = @ \cup {change.file_type},
        !.total_additions = @ + change.additions,
        !.files_changed = Append(@, [path |-> change.path,
                                     change_type |-> change.change_type,
                                     changes |-> << change.additions, change.deletions >>]),
        !.changes_by_type = CountUp(@, change.change_type),
        !.major_changes = IF change.additions + change.deletions > MajorThreshold
                          THEN Append(@, change.path) ELSE @]

GitAccumulateAtLeast(analysis, change) ==
    [analysis EXCEPT
        !.file_types = @ \cup {change.file_type},
        !.total_additions = @ + change.additions,
        !.total_deletions = @ + change.deletions,
        !.files_changed = Append(@, [path |-> change.path,
                                     change_type |-> change.change_type,
                                     changes |-> << change.additions, change.deletions >>]),
        !.changes_by_type = CountUp(@, change.change_type),
        !.major_changes = IF change.additions + change.deletions >= MajorThreshold
                          THEN Append(@, change.path) ELSE @]

GitAccumulate(analysis, change) ==
    [analysis EXCEPT
        !.file_types = @ \cup {change.file_type},
        !.total_additions = @ + change.additions,
        !.total_deletions = @ + change.deletions,
        !.files_changed = Append(@, [path |-> change.path,
                                     change_type |-> change.change_type,
                                     changes |-> << change.additions, change.deletions >>]),
        !.changes_by_type = CountUp(@, change.change_type),
        !.major_changes = IF change.additions + change.deletions > MajorThreshold
                          THEN Append(@, change.path) ELSE @]

RECURSIVE GitAnalyzeLoop(_, _, _)
GitAnalyzeLoop(changes, i, analysis) ==
    IF i > Len(changes) THEN analysis
    ELSE GitAnalyzeLoop(changes, i + 1, GitAccumulate(analysis, changes[i]))

\* GitAnalyzer.analyze_changes after its own enumeration (line 90): the analysis
\* of the changes enumerated, with the summary text that
\* _prepare_changes_summary builds from an enumeration of its own
GitAnalysisOf(changes, summary) ==
    LET a == GitAnalyzeLoop(changes, 1, EmptyAnalysis)
    IN  [kind |-> "analysis",
         file_types |-> a.file_types,
         total_additions |-> a.total_additions,
         total_deletions |-> a.total_deletions,
         changes_by_type |-> a.changes_by_type,
         major_changes |-> a.major_changes,
         files_changed |-> a.files_changed,
         summary |-> summary]

\* GitAnalyzer.analyze_changes with the index the same at both enumerations
GitAnalyzeChangesResult == GitAnalysisOf(GetStagedChangesResult, GitPrepareChangesSummary)

\* what repo.index.commit(message) can do: write the commit, or raise
IndexCommitOutcomes == {"written", "raises"}

\* how commit_changes ends: True after the commit was written; an exception
\* of the try block is caught, the error printed and False returned
CommitChangesEndReraise(outcome) == IF outcome = "written" THEN "True" ELSE "raised"

CommitChangesEnd(outcome) == IF outcome = "written" THEN "True" ELSE "False"

----------------------------------------------------------------------------
(* The inputs: staged entries, and the replies a provider can give *)

PathMainPy == << "main", "py" >>
PathReadme == << "README" >>
PathTarGz == << "pkg", "tar", "gz" >>
PathNotes == << "notes", "txt" >>
Paths == {PathMainPy, PathReadme, PathTarGz}

\* "diff --git", "--- a/f", "+++ b/f", "@@", then the changed lines
DiffModified ==
    JoinLines(<< << "d" >>, << "-", "-", "-" >>, << "+", "+", "+" >>, << "@" >>,
                 << "-", "x" >>, << "+", "x" >>, << "+", "y" >> >>)
DiffNewFile ==
    JoinLines(<< << "d" >>, << "-", "-", "-" >>, << "+", "+", "+" >>, << "@" >>,
                 << "+", "x" >> >>)
DiffDeleted ==
    JoinLines(<< << "d" >>, << "-", "-", "-" >>, << "+", "+", "+" >>, << "@" >>,
                 << "-", "x" >>, << "-", "y" >> >>)
DiffEmpty == <<>>

\* n lines, each the line given
RECURSIVE Repeat(_, _)
Repeat(line, n) == IF n = 0 THEN <<>> ELSE << line >> \o Repeat(line, n - 1)

DiffHeader == << << "d" >>, << "-", "-", "-" >>, << "+", "+", "+" >>, << "@" >> >>

\* a new file of 49 blank lines: count('\n+') is 50 and count('\n-') is 1
DiffLargeNew == JoinLines(DiffHeader \o Repeat(<< "+" >>, 49))
\* a deleted file of 48 blank lines: count('\n+') is 1 and count('\n-') is 49
DiffLargeDeleted == JoinLines(DiffHeader \o Repeat(<< "-" >>, 48))

StagedEntry(path, diff, diff_raises, new_file, deleted_file, renamed, in_head_tree) ==
    [path |-> path, diff |-> diff, diff_raises |-> diff_raises, new_file |-> new_file,
     deleted_file |-> deleted_file, renamed |-> renamed, in_head_tree |-> in_head_tree]

\* the staged entries a repository can hold for a path: a modified, a new, a
\* deleted and a renamed file and one whose diff cannot be retrieved; without
\* a HEAD commit every staged path is new and none is in a HEAD tree
StagedEntries(path, head) ==
    IF head
    THEN {StagedEntry(path, DiffModified, FALSE, FALSE, FALSE, FALSE, TRUE),
          StagedEntry(path, DiffNewFile, FALSE, TRUE, FALSE, FALSE, FALSE),
          StagedEntry(path, DiffDeleted, FALSE, FALSE, TRUE, FALSE, TRUE),
          StagedEntry(path, DiffEmpty, FALSE, FALSE, FALSE, TRUE, TRUE),
          StagedEntry(path, DiffEmpty, TRUE, FALSE, FALSE, FALSE, TRUE)}
    ELSE {StagedEntry(path, DiffNewFile, FALSE, TRUE, FALSE, FALSE, FALSE),
          StagedEntry(path, DiffEmpty, FALSE, TRUE, FALSE, FALSE, FALSE),
          StagedEntry(path, DiffEmpty, TRUE, TRUE, FALSE, FALSE, FALSE)}

RECURSIVE Indexes(_, _, _)
Indexes(paths, head, n) ==
    IF n = 0 THEN {<<>>}
    ELSE {<<>>} \cup
         UNION { { << e >> \o rest : e \in StagedEntries(p, head),
                                     rest \in Indexes(paths \ {p}, head, n - 1) } :
                 p \in paths }

EntryLargeNew == StagedEntry(PathReadme, DiffLargeNew, FALSE, TRUE, FALSE, FALSE, FALSE)
EntryLargeDeleted == StagedEntry(PathMainPy, DiffLargeDeleted, FALSE, FALSE, TRUE, FALSE, TRUE)
EntrySmall == StagedEntry(PathTarGz, DiffModified, FALSE, FALSE, FALSE, FALSE, TRUE)

\* indexes with large files, of a repository with commits
LargeIndexes ==
    {<< EntryLargeDeleted, EntryLargeNew, EntrySmall >>, << EntryLargeNew, EntryLargeDeleted >>}

EntryModified == StagedEntry(PathMainPy, DiffModified, FALSE, FALSE, FALSE, FALSE, TRUE)
EntryNew == StagedEntry(PathReadme, DiffNewFile, FALSE, TRUE, FALSE, FALSE, FALSE)
EntryUnreadable == StagedEntry(PathTarGz, DiffEmpty, TRUE, TRUE, FALSE, FALSE, FALSE)

\* the indexes the conversation is run on
ConversationIndexes ==
    {<<>>, << EntryModified, EntryNew >>, << EntryUnreadable, EntryNew >>}

TextPlain ==
    Str(<< << "feat", ":", "add widget" >>, <<>>, <<>>, << "Details." >> >>)
TextAnalyze == Str(<< << "I will call", "analyze_changes" >> >>)
TextFormat ==
    Str(<< << "fix", ":", "use", "format_commit_message" >>, <<>>, <<>>, << "Details." >> >>)
TextFormatOneBlank ==
    Str(<< << "fix", ":", "use", "format_commit_message" >>, <<>>, << "Details." >> >>)
TextFormatNoColon == Str(<< << "format_commit_message", "says" >>, << "docs" >> >>)
TextFormatColons ==
    Str(<< << "docs", ":", "format_commit_message", ":", "usage" >> >>)
TextBoth == Str(<< << "analyze_changes", "then", "format_commit_message" >> >>)

TextBlock(text) == [type |-> "text", text |-> text]

\* response.content of the Anthropic client: a list of text blocks
AnthropicContents ==
    {<<>>, << TextBlock(TextPlain), TextBlock(TextAnalyze) >>}
    \cup { << TextBlock(t) >> :
             t \in {TextPlain, TextAnalyze, TextFormat, TextFormatOneBlank,
                    TextFormatNoColon, TextFormatColons, TextBoth} }

ArgsChanges == JsonDumps(JsonObject({"changes"}, [k \in {"changes"} |-> JsonArray]))
ArgsEmpty == JsonDumps(JsonObject({}, EmptyDict))
ArgsCommit ==
    JsonDumps(JsonObject({"type", "description", "details"},
        [k \in {"type", "description", "details"} |->
            CASE k = "type" -> Str(<< << "feat" >> >>)
              [] k = "description" -> Str(<< << "add widget" >> >>)
              [] OTHER -> Str(<< << "Details." >> >>)]))
ArgsNoDetails ==
    JsonDumps(JsonObject({"type", "description"},
        [k \in {"type", "description"} |->
            IF k = "type" THEN Str(<< << "feat" >> >>) ELSE Str(<< << "add widget" >> >>)]))
ArgsArray == JsonDumps(JsonArray)

OpenAIReply(content, function_call) ==
    [shape |-> "openai", content |-> content, function_call |-> function_call]

\* response.choices[0].message of the OpenAI client: with or without text, with
\* or without a function call, the call well formed or not
OpenAIReplies ==
    {OpenAIReply(TextPlain, PyNone),
     OpenAIReply(PyNone, PyNone),
     OpenAIReply(PyNone, FunctionCall("analyze_changes", ArgsChanges)),
     OpenAIReply(TextPlain, FunctionCall("analyze_changes", ArgsEmpty)),
     OpenAIReply(TextPlain, FunctionCall("analyze_changes", BadJson)),
     OpenAIReply(PyNone, FunctionCall("format_commit_message", ArgsCommit)),
     OpenAIReply(TextPlain, FunctionCall("format_commit_message", ArgsNoDetails)),
     OpenAIReply(TextPlain, FunctionCall("format_commit_message", ArgsArray)),
     OpenAIReply(PyNone, FunctionCall("format_commit_message", BadJson)),
     OpenAIReply(TextPlain, FunctionCall("get_weather", ArgsEmpty)),
     OpenAIReply(PyNone, FunctionCall("get_weather", BadJson))}

\* the replies of the client on the branch _call_ai_api takes for the api type
Replies(api) ==
    IF api = "openai"
    THEN OpenAIReplies
    ELSE { [shape |-> "anthropic", content |-> c] : c \in AnthropicContents }

----------------------------------------------------------------------------
(* Initial states *)

AgentInit ==
    /\ conversation_history = <<>>
    /\ changes_arg = <<>>
    /\ pc = "idle"
    /\ requests = <<>>
    /\ last_reply = PyNone
    /\ response = Response(PyNone, PyNone)
    /\ result = PyNone
    /\ error_reported = FALSE
    /\ call_failed = FALSE
    /\ invocations = 0
    /\ replaced_history = 0

AnalyzerInit ==
    /\ staged_changes = <<>>
    /\ git_analysis = PyNone
    /\ analyzed_changes = <<>>
    /\ agent_analysis = PyNone
    /\ analyze_pc = "idle"

CommitInit ==
    /\ commit_outcome = "none"
    /\ commit_returns = <<>>
    /\ committed = <<>>

MainInit ==
    /\ dry_run = FALSE
    /\ main_end = "running"
    /\ main_console = <<>>

\* a repository with commits and a staged index, an agent of any api type
Init ==
    /\ head_valid = TRUE
    /\ index_diff_raises = FALSE
    /\ index \in ConversationIndexes
    /\ untracked_files = << PathNotes >>
    /\ api_type \in ApiTypes
    /\ AnalyzerInit
    /\ AgentInit
    /\ CommitInit
    /\ MainInit

\* any repository: with or without commits, any staged index
InitAnalyzer ==
    /\ head_valid \in BOOLEAN
    /\ index_diff_raises \in BOOLEAN
    /\ ~head_valid => index_diff_raises
    /\ index \in Indexes(Paths, head_valid, MaxFiles)
                 \cup (IF head_valid THEN LargeIndexes ELSE {})
    /\ untracked_files = <<>>
    /\ api_type = "openai"
    /\ AnalyzerInit
    /\ AgentInit
    /\ CommitInit
    /\ MainInit

----------------------------------------------------------------------------
(* Actions *)

AppendBounded(seq, x, max) == IF Len(seq) < max THEN Append(seq, x) ELSE seq

\* git.get_staged_changes()
GetStagedChanges ==
    /\ pc # "awaiting"
    /\ staged_changes' = GetStagedChangesResult
    /\ UNCHANGED << git_analysis, analyzed_changes, agent_analysis, analyze_pc >>
    /\ UNCHANGED repo_vars
    /\ UNCHANGED agent_vars
    /\ UNCHANGED commit_vars
    /\ UNCHANGED main_vars

\* git.analyze_changes()
GitAnalyzeChanges ==
    /\ pc # "awaiting"
    /\ git_analysis' = GitAnalyzeChangesResult
    /\ analyzed_changes' = GetStagedChangesResult
    /\ UNCHANGED << staged_changes, agent_analysis, analyze_pc >>
    /\ UNCHANGED repo_vars
    /\ UNCHANGED agent_vars
    /\ UNCHANGED commit_vars
    /\ UNCHANGED main_vars

\* agent.analyze_changes(changes) on the enumerated changes
AgentAnalyze ==
    /\ pc # "awaiting"
    /\ agent_analysis' = [kind |-> "analysis_of",
                           changes |-> staged_changes,
                           analysis |-> AgentAnalyzeChanges(staged_changes)]
    /\ UNCHANGED << staged_changes, git_analysis, analyzed_changes, analyze_pc >>
    /\ UNCHANGED repo_vars
    /\ UNCHANGED agent_vars
    /\ UNCHANGED commit_vars
    /\ UNCHANGED main_vars

\* agent.decide_next_action(changes, untracked) up to its first provider call
DecideNextAction ==
    /\ pc \in {"idle", "done"}
    /\ invocations < MaxInvocations
    /\ invocations' = invocations + 1
    /\ replaced_history' = Len(conversation_history)
    /\ changes_arg' = staged_changes
    /\ conversation_history' = InitialHistory(staged_changes, untracked_files)
    /\ requests' = << ApiRequest(api_type, conversation_history', FirstToolChoice) >>
    /\ pc' = "awaiting"
    /\ last_reply' = PyNone
    /\ response' = Response(PyNone, PyNone)
    /\ result' = PyNone
    /\ error_reported' = FALSE
    /\ call_failed' = FALSE
    /\ UNCHANGED api_type
    /\ UNCHANGED repo_vars
    /\ UNCHANGED analyzer_vars
    /\ UNCHANGED commit_vars
    /\ UNCHANGED main_vars

\* the blocking provider call returns a reply: the reply is parsed, appended to
\* the history and handled, up to the return of decide_next_action or to the
\* next provider call
ProviderReply ==
    /\ pc = "awaiting"
    /\ \E reply \in Replies(api_type) :
         LET resp == CallResult(api_type, reply)
             h1 == AppendBounded(conversation_history,
                                 Message("assistant", resp.content, resp.function_call),
                                 MaxHistory)
             out == HandleAiResponse(resp)
             h2 == AppendBounded(h1, AnalysisMessage(AgentAnalyzeChanges(changes_arg)),
                                 MaxHistory)
         IN  /\ last_reply' = reply
             /\ response' = resp
             /\ IF out.kind = "continue"
                THEN /\ conversation_history' = h2
                     /\ requests' = AppendBounded(requests,
                                        ApiRequest(api_type, h2, ContinueToolChoice),
                                        MaxCalls)
                     /\ pc' = "awaiting"
                     /\ UNCHANGED << result, error_reported >>
                ELSE /\ conversation_history' = h1
                     /\ UNCHANGED requests
                     /\ pc' = IF out.kind = "raise" THEN ExceptBranch.pc ELSE "done"
                     /\ result' = IF out.kind = "raise" THEN ExceptBranch.result
                                  ELSE out.value
                     /\ error_reported' = IF out.kind = "raise" THEN ExceptBranch.reported
                                          ELSE error_reported
    /\ UNCHANGED << api_type, changes_arg, call_failed, invocations, replaced_history >>
    /\ UNCHANGED repo_vars
    /\ UNCHANGED analyzer_vars
    /\ UNCHANGED commit_vars
    /\ UNCHANGED main_vars

\* the blocking provider call raises: the exception reaches the except branch
\* of decide_next_action
ProviderFail ==
    /\ pc = "awaiting"
    /\ call_failed' = TRUE
    /\ pc' = ExceptBranch.pc
    /\ result' = ExceptBranch.result
    /\ error_reported' = ExceptBranch.reported
    /\ UNCHANGED << api_type, conversation_history, changes_arg, requests, last_reply,
                    response, invocations, replaced_history >>
    /\ UNCHANGED repo_vars
    /\ UNCHANGED analyzer_vars
    /\ UNCHANGED commit_vars
    /\ UNCHANGED main_vars

Next ==
    \/ GetStagedChanges
    \/ DecideNextAction
    \/ ProviderReply
    \/ ProviderFail

Spec == Init /\ [][Next]_vars

\* every blocking provider call ends, with a reply or an exception
FairSpec == Spec /\ WF_vars(ProviderReply \/ ProviderFail)

NextAnalyzer ==
    \/ GetStagedChanges
    \/ GitAnalyzeChanges
    \/ AgentAnalyze

AnalyzerSpec == InitAnalyzer /\ [][NextAnalyzer]_vars

\* the indexes commit_changes is run on
CommitIndexes(head) == Indexes({PathMainPy, PathReadme}, head, 2)

CommitMessages == {TextPlain, EmptyStr}

\* any repository with at most two staged files
InitCommit ==
    /\ head_valid \in BOOLEAN
    /\ index_diff_raises \in BOOLEAN
    /\ ~head_valid => index_diff_raises
    /\ index \in CommitIndexes(head_valid)
    /\ untracked_files = <<>>
    /\ api_type = "openai"
    /\ AnalyzerInit
    /\ AgentInit
    /\ CommitInit
    /\ MainInit

\* git.commit_changes(message): repo.index.commit writes a commit of the staged
\* index, after which HEAD is valid and nothing is staged, or it raises and
\* commit_changes does nothing more to the repository
CommitChanges ==
    /\ pc # "awaiting"
    /\ Len(commit_returns) < MaxCommits
    /\ \E message \in CommitMessages, outcome \in IndexCommitOutcomes :
         /\ commit_outcome' = outcome
         /\ commit_returns' = Append(commit_returns, CommitChangesEnd(outcome))
         /\ IF outcome = "written"
            THEN /\ committed' = Append(committed, [message |-> message,
                                                     tree |-> index,
                                                     initial |-> ~head_valid])
                 /\ index' = <<>>
                 /\ head_valid' = TRUE
                 /\ index_diff_raises' = (head_valid /\ index_diff_raises)
            ELSE UNCHANGED << committed, index, head_valid, index_diff_raises >>
    /\ UNCHANGED untracked_files
    /\ UNCHANGED analyzer_vars
    /\ UNCHANGED agent_vars
    /\ UNCHANGED main_vars

NextCommit ==
    \/ GetStagedChanges
    \/ CommitChanges

CommitSpec == InitCommit /\ [][NextCommit]_vars

----------------------------------------------------------------------------
(* analyze_changes while another process changes the index *)

\* the indexes another process moves the repository between
SharedIndexes ==
    {<<>>, << EntryModified >>, << EntryModified, EntryNew >>, << EntryUnreadable, EntryNew >>}

InitConcurrent ==
    /\ head_valid = TRUE
    /\ index_diff_raises = FALSE
    /\ index \in SharedIndexes
    /\ untracked_files = <<>>
    /\ api_type = "openai"
    /\ AnalyzerInit
    /\ AgentInit
    /\ CommitInit
    /\ MainInit

\* analyze_changes, line 90: changes = self.get_staged_changes()
AnalyzeChangesEnumerate ==
    /\ analyze_pc = "idle"
    /\ analyze_pc' = "enumerated"
    /\ analyzed_changes' = GetStagedChangesResult
    /\ UNCHANGED << staged_changes, git_analysis, agent_analysis >>
    /\ UNCHANGED repo_vars
    /\ UNCHANGED agent_vars
    /\ UNCHANGED commit_vars
    /\ UNCHANGED main_vars

\* analyze_changes, lines 92-121: the summary of _prepare_changes_summary,
\* which enumerates the index as it is now, and the loop over `changes`
AnalyzeChangesReturn ==
    /\ analyze_pc = "enumerated"
    /\ analyze_pc' = "idle"
    /\ git_analysis' = GitAnalysisOf(analyzed_changes, GitPrepareChangesSummary)
    /\ UNCHANGED << staged_changes, analyzed_changes, agent_analysis >>
    /\ UNCHANGED repo_vars
    /\ UNCHANGED agent_vars
    /\ UNCHANGED commit_vars
    /\ UNCHANGED main_vars

\* another process stages or unstages files (git add, git reset)
OtherProcessChangesIndex ==
    /\ \E other \in SharedIndexes \ {index} : index' = other
    /\ UNCHANGED << head_valid, index_diff_raises, untracked_files >>
    /\ UNCHANGED analyzer_vars
    /\ UNCHANGED agent_vars
    /\ UNCHANGED commit_vars
    /\ UNCHANGED main_vars

NextConcurrent ==
    \/ AnalyzeChangesEnumerate
    \/ AnalyzeChangesReturn
    \/ OtherProcessChangesIndex

ConcurrentSpec == InitConcurrent /\ [][NextConcurrent]_vars

----------------------------------------------------------------------------
(* main *)

\* a Python call binds when every keyword given names a parameter and every
\* parameter without a default is given; else it raises TypeError
Binds(given, parameters, required) == given \subseteq parameters /\ required \subseteq given

\* GitCommitAgent.__init__(self, model="gpt-4", local=False, verbose=False)
AgentInitParameters == {"model", "local", "verbose"}
\* GitCommitAgent(git_analyzer=git, model=model, local=local, verbose=verbose)
MainAgentKeywords == {"git_analyzer", "model", "local", "verbose"}
\* decide_next_action(self, changes, untracked)
DecideNextActionParameters == {"changes", "untracked"}
\* agent.decide_next_action()
MainDecideArguments == {}

\* except (GitCommandError, EnvironmentError, APIError)
MainCaught == {"GitCommandError", "EnvironmentError", "APIError"}

WarningNoStaged == "No staged changes found"
InfoAnalyzing == "AI agent is analyzing changes"
ErrorOccurred == "An error occurred"

\* an exception raised inside the try block of main: a caught one is printed
\* and the run exits, any other leaves main
MainExcept(exception, console) ==
    IF exception \in MainCaught
    THEN [end |-> "exit", console |-> Append(console, ErrorOccurred), reached_staged |-> FALSE]
    ELSE [end |-> "uncaught", console |-> console, reached_staged |-> FALSE]

\* main from the construction of the agent to the end of the run or to the
\* provider call of decide_next_action
MainRunResult ==
    IF ~Binds(MainAgentKeywords, AgentInitParameters, {})
    THEN MainExcept("TypeError", <<>>)
    ELSE IF GetStagedChangesResult = <<>>
    THEN [end |-> "exit", console |-> << WarningNoStaged >>, reached_staged |-> TRUE]
    ELSE IF ~Binds(MainDecideArguments, DecideNextActionParameters,
                   DecideNextActionParameters)
    THEN [MainExcept("TypeError", << InfoAnalyzing >>) EXCEPT !.reached_staged = TRUE]
    ELSE [end |-> "awaiting", console |-> << InfoAnalyzing >>, reached_staged |-> TRUE]

\* one run of main on any repository with at most two staged files, with or
\* without --dry-run, for any of the model options
InitMain ==
    /\ head_valid \in BOOLEAN
    /\ index_diff_raises \in BOOLEAN
    /\ ~head_valid => index_diff_raises
    /\ index \in CommitIndexes(head_valid)
    /\ untracked_files = <<>>
    /\ api_type \in ApiTypes
    /\ AnalyzerInit
    /\ AgentInit
    /\ CommitInit
    /\ dry_run \in BOOLEAN
    /\ main_end = "running"
    /\ main_console = <<>>

\* main(dry_run, model, local, verbose): git.analyze_changes(), then the rest
\* of the try block
Main ==
    /\ main_end = "running"
    /\ git_analysis' = GitAnalyzeChangesResult
    /\ analyzed_changes' = GetStagedChangesResult
    /\ staged_changes' = IF MainRunResult.reached_staged THEN GetStagedChangesResult
                         ELSE staged_changes
    /\ main_end' = MainRunResult.end
    /\ main_console' = MainRunResult.console
    /\ UNCHANGED << agent_analysis, dry_run, analyze_pc >>
    /\ UNCHANGED repo_vars
    /\ UNCHANGED agent_vars
    /\ UNCHANGED commit_vars

NextMain == Main

MainSpec == InitMain /\ [][NextMain]_vars

----------------------------------------------------------------------------
(* Properties *)

\* the diff texts a message content carries
DiffsInContent(content) ==
    IF content.kind = "analyze_prompt"
    THEN { content.summary.entries[i].diff : i \in DOMAIN content.summary.entries }
    ELSE IF content.kind = "prompt"
    THEN UNION { IF content.parts[k].content.kind = "analyze_prompt"
                 THEN { content.parts[k].content.summary.entries[i].diff :
                          i \in DOMAIN content.parts[k].content.summary.entries }
                 ELSE {} : k \in DOMAIN content.parts }
    ELSE {}

DiffsInRequest(req) ==
    UNION { DiffsInContent(req.messages[i].content) : i \in DOMAIN req.messages }

\* the text of a reply as the provider sent it
ReplyHasText(reply) ==
    IF reply.shape = "openai" THEN reply.content # PyNone ELSE reply.content # <<>>

ReplyText(reply) ==
    IF reply.shape = "openai" THEN reply.content ELSE reply.content[1].text

\* a function call that is no well-formed invocation of a declared function
Malformed(fc) ==
    \/ fc = PyNone
    \/ /\ fc # PyNone
       /\ \/ \A i \in DOMAIN AvailableFunctions : AvailableFunctions[i] # fc.name
          \/ ~fc.arguments.valid
          \/ /\ fc.arguments.valid
             /\ fc.name = "format_commit_message"
             /\ \/ fc.arguments.value.kind # "object"
                \/ /\ fc.arguments.value.kind = "object"
                   /\ ~({"type", "description", "details"} \subseteq fc.arguments.value.keys)

\* the lines of a diff text, after the first, that begin with the marker
MarkerLines(diff, marker) ==
    Cardinality({ i \in 2..Len(diff) : diff[i - 1] = "\n" /\ diff[i] = marker })

RECURSIVE SumMarkerLines(_, _)
SumMarkerLines(changes, marker) ==
    IF changes = <<>> THEN 0
    ELSE MarkerLines(Head(changes).diff, marker) + SumMarkerLines(Tail(changes), marker)

\* C1: the first provider request of an invocation carries the tool choice
\* forced to analyze_changes, whatever the api type of the agent.
C1_FirstRequestForcesAnalyze ==
    Len(requests) >= 1 => requests[1].function_call = ToolChoice("analyze_changes")

\* C2: when the second reply of an invocation is text with no tool invocation
\* (the first having been an analyze_changes invocation), decide_next_action
\* returns exactly the text of that reply.
C2_PlainTextReturnedVerbatim ==
    ( /\ pc = "done"
      /\ ~call_failed
      /\ Len(requests) = 2
      /\ response.function_call = PyNone
      /\ ReplyHasText(last_reply) )
    => result = ReplyText(last_reply)

\* C3: when the first provider call of an invocation fails, the invocation is
\* over with the error reported and None returned, and its first request is
\* the only one issued.
C3_FirstCallFailure ==
    (call_failed /\ last_reply = PyNone)
    => (pc = "done" /\ result = PyNone /\ error_reported /\ Len(requests) = 1)

C3_Witness ==
    call_failed /\ last_reply = PyNone /\ pc = "done" /\ Len(requests) = 1

\* C4: one invocation issues at most two provider calls.
C4_AtMostTwoCalls == Len(requests) <= 2

C6_FailureEndsInvocation ==
    call_failed => (pc = "done" /\ result = PyNone /\ error_reported)

C6_Witness ==
    call_failed /\ last_reply # PyNone /\ Len(requests) >= 2 /\ pc = "done"

\* C7 as stated: the messages of the first provider request contain no diff
\* text of the staged changes.
C7_NoDiffInFirstRequest ==
    Len(requests) >= 1 => { d \in DiffsInRequest(requests[1]) : d # <<>> } = {}

\* C7 as amended: the messages of the first provider request contain the diff
\* text of every change passed to decide_next_action, whatever the api type.
C7_FirstRequestEmbedsDiffs ==
    Len(requests) >= 1 =>
        \A i \in DOMAIN changes_arg : changes_arg[i].diff \in DiffsInRequest(requests[1])

C7_Witness ==
    /\ api_type = "anthropic"
    /\ Len(requests) >= 1
    /\ \E i \in DOMAIN changes_arg : changes_arg[i].diff # <<>>
    /\ DiffModified \in DiffsInRequest(requests[1])

\* C8 as stated: the second provider request of an invocation carries no
\* forced tool choice.
C8_SecondCallNotForced ==
    Len(requests) >= 2 => requests[2].function_call.kind # "tool_choice"

\* C8 as amended: the second provider call is made with the tool choice
\* format_commit_message; the request of the 'openai' branch carries it as the
\* forced tool choice, the request of the other branch carries no tool choice.
C8_SecondCallForcesFormat ==
    Len(requests) >= 2 =>
        requests[2].function_call =
            IF api_type = "openai" THEN ToolChoice("format_commit_message") ELSE Absent

C8_Witness ==
    /\ api_type = "openai"
    /\ Len(requests) >= 2
    /\ requests[2].function_call = ToolChoice("format_commit_message")
    /\ requests[2].messages[Len(requests[2].messages)].content.kind = "analysis_prompt"

\* C9: when the reply handled last carries no well-formed tool invocation (no
\* function call, an unknown function, unparseable arguments, or arguments
\* without the required fields), the invocation ends without an error and
\* returns the text content of that reply.
C9_MalformedInvocationReturnsText ==
    ( /\ pc = "done"
      /\ ~call_failed
      /\ last_reply # PyNone
      /\ Malformed(response.function_call) )
    => (result = response.content /\ ~error_reported)

\* C10: the totals of an analysis are the sums, over the analyzed changes, of
\* the lines of each change's own diff text that begin with "+" and with "-",
\* and each change's counts are those of its own diff text.
C10_TotalsAreSums ==
    /\ git_analysis # PyNone =>
         /\ git_analysis.total_additions = SumMarkerLines(analyzed_changes, "+")
         /\ git_analysis.total_deletions = SumMarkerLines(analyzed_changes, "-")
         /\ \A i \in DOMAIN analyzed_changes :
              /\ analyzed_changes[i].additions = MarkerLines(analyzed_changes[i].diff, "+")
              /\ analyzed_changes[i].deletions = MarkerLines(analyzed_changes[i].diff, "-")
    /\ agent_analysis # PyNone =>
         /\ agent_analysis.analysis.total_additions
              = SumMarkerLines(agent_analysis.changes, "+")
         /\ agent_analysis.analysis.total_deletions
              = SumMarkerLines(agent_analysis.changes, "-")

C10_Witness ==
    /\ git_analysis # PyNone
    /\ agent_analysis # PyNone
    /\ Len(analyzed_changes) = 2
    /\ Len(agent_analysis.changes) = 2
    /\ analyzed_changes[1].diff # analyzed_changes[2].diff
    /\ git_analysis.total_additions > analyzed_changes[1].additions
    /\ git_analysis.total_deletions > analyzed_changes[1].deletions
    /\ analyzed_changes[1].deletions > 0

\* the lines of a diff text that begin with the marker and are no file header
\* line ("+++ b/path", "--- a/path")
ChangedLines(diff, marker) ==
    Cardinality({ i \in DOMAIN diff :
                    /\ diff[i] = marker
                    /\ (i = 1 \/ diff[i - 1] = "\n")
                    /\ ~( /\ i + 2 <= Len(diff)
                          /\ diff[i + 1] = marker
                          /\ diff[i + 2] = marker ) })

\* C11: the additions and deletions of every enumerated change are the numbers
\* of lines of its diff text that begin with "+" and with "-", the "+++" and
\* "---" file header lines not counted.
C11_CountsExcludeHeaders ==
    \A i \in DOMAIN staged_changes :
        /\ staged_changes[i].additions = ChangedLines(staged_changes[i].diff, "+")
        /\ staged_changes[i].deletions = ChangedLines(staged_changes[i].diff, "-")

\* the staged entries whose diff retrieval succeeds, in the order of enumeration
Readable(entry) == ~entry.diff_raises
ReadableEntries == SelectSeq(index, Readable)

\* C12: every call of get_staged_changes returns one record for each staged
\* file whose diff retrieval succeeds, in the order of enumeration, and none
\* for a file whose diff retrieval fails: a failing file is left out and the
\* files before and after it are still returned.
C12_FailedFileOmitted ==
    [][ GetStagedChanges =>
          /\ Len(staged_changes') = Len(ReadableEntries)
          /\ \A k \in DOMAIN ReadableEntries :
               /\ staged_changes'[k].path = ReadableEntries[k].path
               /\ staged_changes'[k].diff = ReadableEntries[k].diff ]_vars

C12_Witness ==
    /\ Len(index) = 3
    /\ ~index[1].diff_raises
    /\ index[2].diff_raises
    /\ ~index[3].diff_raises
    /\ Len(staged_changes) = 2
    /\ staged_changes[1].path = index[1].path
    /\ staged_changes[2].path = index[3].path

\* the paths of the changes with more than n changed lines, in order
RECURSIVE PathsOver(_, _)
PathsOver(changes, n) ==
    IF changes = <<>> THEN <<>>
    ELSE (IF Head(changes).additions + Head(changes).deletions > n
          THEN << Head(changes).path >> ELSE <<>>)
         \o PathsOver(Tail(changes), n)

\* C13: major_changes lists exactly the files whose additions plus deletions
\* exceed 50, in the analysis of GitAnalyzer and in that of the agent: a file
\* with 50 changed lines is not listed, a file with 51 is.
C13_MajorIffOverFifty ==
    /\ git_analysis # PyNone =>
         git_analysis.major_changes = PathsOver(analyzed_changes, 50)
    /\ agent_analysis # PyNone =>
         agent_analysis.analysis.major_changes = PathsOver(agent_analysis.changes, 50)

C13_Witness ==
    /\ git_analysis # PyNone
    /\ agent_analysis # PyNone
    /\ Len(analyzed_changes) = 3
    /\ agent_analysis.changes = analyzed_changes
    /\ analyzed_changes[1].additions + analyzed_changes[1].deletions = 50
    /\ analyzed_changes[2].additions + analyzed_changes[2].deletions = 51
    /\ analyzed_changes[3].additions + analyzed_changes[3].deletions < 50
    /\ git_analysis.major_changes = << analyzed_changes[2].path >>
    /\ agent_analysis.analysis.major_changes = << analyzed_changes[2].path >>

\* the staged entry of a path
EntryOf(path) == index[CHOOSE i \in DOMAIN index : index[i].path = path]

\* C14: in a repository without commits every enumerated change has the type
\* "A"; when the staged files are enumerated on the branch taken after
\* repo.index.diff("HEAD") raised, a change has the type "M" only if its path
\* is found in the tree of the HEAD commit, and the type "A" otherwise.
C14_NewRepositoryAdded ==
    /\ ~head_valid => \A i \in DOMAIN staged_changes : staged_changes[i].change_type = "A"
    /\ index_diff_raises =>
         \A i \in DOMAIN staged_changes :
            /\ staged_changes[i].change_type \in {"A", "M"}
            /\ staged_changes[i].change_type = "M"
                 <=> (head_valid /\ EntryOf(staged_changes[i].path).in_head_tree)

C14_Witness ==
    /\ ~head_valid
    /\ Len(index) = 3
    /\ Len(staged_changes) = 2
    /\ staged_changes[1].diff # staged_changes[2].diff
    /\ \A i \in DOMAIN staged_changes : staged_changes[i].change_type = "A"

\* an analysis of no change at all
NoChanges(analysis) ==
    /\ analysis.total_additions = 0
    /\ analysis.total_deletions = 0
    /\ DOMAIN analysis.changes_by_type = {}
    /\ analysis.major_changes = <<>>
    /\ analysis.files_changed = <<>>
    /\ analysis.file_types = {}

\* C15: with nothing staged, a call of get_staged_changes returns the empty
\* sequence and a call of analyze_changes (of GitAnalyzer, and of the agent on
\* the empty sequence) returns zero totals, no change-type counts and no major
\* changes; both calls return a value.
C15_NothingStaged ==
    [][ /\ (index = <<>> /\ GetStagedChanges) => staged_changes' = <<>>
        /\ (index = <<>> /\ GitAnalyzeChanges) =>
              (git_analysis' # PyNone /\ NoChanges(git_analysis'))
        /\ (staged_changes = <<>> /\ AgentAnalyze) =>
              (agent_analysis' # PyNone /\ NoChanges(agent_analysis'.analysis)) ]_vars

C15_Witness ==
    /\ index = <<>>
    /\ staged_changes = <<>>
    /\ git_analysis # PyNone
    /\ agent_analysis # PyNone
    /\ NoChanges(git_analysis)
    /\ NoChanges(agent_analysis.analysis)

\* the reply handled last is the first reply of the invocation and invokes
\* analyze_changes, with whatever arguments
FirstReplyInvokesAnalyze ==
    /\ last_reply # PyNone
    /\ ~call_failed
    /\ Len(requests) <= 2
    /\ Len(conversation_history) <= 4
    /\ response.function_call # PyNone
    /\ response.function_call.name = "analyze_changes"

\* C16: the outcome of handling an analyze_changes invocation is the same for
\* every argument payload of the invocation: the analysis of the changes passed
\* to decide_next_action is appended to the conversation and the second request
\* is sent with that conversation.
C16_ArgumentsDoNotMatter ==
    FirstReplyInvokesAnalyze =>
        /\ pc = "awaiting"
        /\ Len(requests) = 2
        /\ conversation_history[Len(conversation_history)]
             = AnalysisMessage(AgentAnalyzeChanges(changes_arg))
        /\ requests[2].messages = ApiRequest(api_type, conversation_history, Absent).messages

\* the content carries the figures of the analysis of the changes passed to
\* decide_next_action
CarriesAnalysis(content) ==
    LET analysis == AgentAnalyzeChanges(changes_arg)
    IN  /\ content.kind = "analysis_prompt"
        /\ content.files_modified = Len(analysis.files_changed)
        /\ content.total_additions = analysis.total_additions
        /\ content.total_deletions = analysis.total_deletions
        /\ content.file_types = analysis.file_types
        /\ content.change_types = analysis.changes_by_type
        /\ content.major_changes = analysis.major_changes

\* C17 as stated: the message appended after the first analyze_changes
\* invocation, before the second provider call, has the Tool role, carries the
\* analysis and carries the identifier of the invocation.
C17_ToolRoleMessage ==
    Len(requests) >= 2 =>
        /\ conversation_history[4].role = "tool"
        /\ CarriesAnalysis(conversation_history[4].content)
        /\ "tool_call_id" \in DOMAIN conversation_history[4]

\* C17 as amended: that message has the user role, carries the figures of the
\* analysis and has no field but role, content and an absent function call: it
\* carries no identifier of the invocation.
C17_UserRoleAnalysisMessage ==
    Len(requests) >= 2 =>
        /\ conversation_history[3].role = "assistant"
        /\ conversation_history[3].function_call.name = "analyze_changes"
        /\ conversation_history[4].role = "user"
        /\ CarriesAnalysis(conversation_history[4].content)
        /\ DOMAIN conversation_history[4] = {"role", "content", "function_call"}
        /\ conversation_history[4].function_call = Absent

C17_Witness ==
    /\ Len(requests) = 2
    /\ pc = "awaiting"
    /\ Len(changes_arg) = 2
    /\ conversation_history[4].role = "user"
    /\ conversation_history[4].content.kind = "analysis_prompt"
    /\ conversation_history[4].content.files_modified = 2
    /\ conversation_history[4].content.total_additions > 0

\* the messages a request carries: the messages of the 'openai' branch, the
\* labelled parts of the single prompt of the other branch
Carried(req) ==
    IF req.endpoint = "chat.completions" THEN req.messages
    ELSE req.messages[1].content.parts

IsPrefix(s, t) == Len(s) <= Len(t) /\ SubSeq(t, 1, Len(s)) = s

\* C18: an invocation of decide_next_action starts from a history of the
\* system message and the user message of its own changes, whatever the
\* history it replaces, and its first request carries these two messages only;
\* every request of the invocation is made from a prefix of its history:
\* request k from the first 2k messages; and within the invocation the
\* history changes by appending only.
C18_NoCrossInvocationMemory ==
    [][ /\ invocations' # invocations =>
              /\ Len(conversation_history') = 2
              /\ conversation_history'[1].role = "system"
              /\ conversation_history'[2].role = "user"
              /\ conversation_history'[2].content.kind = "analyze_prompt"
              /\ Len(requests') = 1
        /\ invocations' = invocations =>
              IsPrefix(conversation_history, conversation_history')
        /\ \A k \in DOMAIN requests' :
              /\ Len(Carried(requests'[k])) = 2 * k
              /\ Carried(requests'[k])
                   = Carried(ApiRequest(api_type, SubSeq(conversation_history', 1, 2 * k),
                                        Absent)) ]_vars

C18_Witness ==
    /\ invocations = 2
    /\ replaced_history >= 5
    /\ Len(requests) = 2
    /\ Len(Carried(requests[1])) = 2
    /\ Len(conversation_history) = 4

C21_NoStagedChangesWarns ==
    (main_end # "running" /\ GetStagedChangesResult = <<>>) =>
        /\ main_end = "exit"
        /\ \E i \in DOMAIN main_console : main_console[i] = WarningNoStaged
        /\ requests = <<>>

\* C22: every request of an agent of the local provider has the shape of the
\* requests of the OpenAI variant: the chat.completions endpoint with the
\* conversation messages, the function schemas and the tool choice; and its
\* replies are read in the OpenAI shape.
C22_LocalUsesOpenAIShape ==
    api_type = "local" =>
        /\ \A k \in DOMAIN requests :
              /\ requests[k].endpoint = "chat.completions"
              /\ requests[k].functions = AvailableFunctions
        /\ last_reply # PyNone => last_reply.shape = "openai"

\* the invocation ended by returning the message built from the
\* format_commit_message invocation of the reply handled last
BuiltCommitMessage ==
    /\ pc = "done"
    /\ ~call_failed
    /\ ~error_reported
    /\ result # PyNone
    /\ response.function_call # PyNone
    /\ response.function_call.name = "format_commit_message"

\* C23: a message built from a format_commit_message invocation consists of
\* the line "<type>: <description>" of the invocation's type and description,
\* then two blank lines, then the lines of the invocation's details.
C23_CommitMessageForm ==
    BuiltCommitMessage =>
        LET args == response.function_call.arguments.value.get
            type == args["type"].lines
            description == args["description"].lines
        IN  /\ result.kind = "str"
            /\ Len(result.lines) >= 4
            /\ result.lines[1] = type[Len(type)] \o << ":" >> \o description[1]
            /\ result.lines[2] = <<>>
            /\ result.lines[3] = <<>>
            /\ SubSeq(result.lines, 4, Len(result.lines)) = args["details"].lines

C23_Witness ==
    /\ BuiltCommitMessage
    /\ api_type = "anthropic"
    /\ Len(requests) = 2
    /\ result.lines = << << "fix", ":", "use", "format_commit_message" >>, <<>>, <<>>,
                           << "Details." >> >>

\* C24: in every result of GitAnalyzer.analyze_changes the files of the summary
\* are the files of files_changed, in order and with the same additions and
\* deletions, and these counts add up to the totals.
C24_SummaryMatchesFilesChanged ==
    git_analysis # PyNone =>
        LET entries == git_analysis.summary.entries
            files == git_analysis.files_changed
        IN  /\ Len(entries) = Len(files)
            /\ \A i \in DOMAIN files :
                  /\ i \in DOMAIN entries
                  /\ entries[i].path = files[i].path
                  /\ << entries[i].additions, entries[i].deletions >> = files[i].changes
            /\ SumMarkerLines(entries, "+") = git_analysis.total_additions
            /\ SumMarkerLines(entries, "-") = git_analysis.total_deletions

\* the function the reply handled last was classified as invoking, "" for a
\* reply classified as final text
ClassifiedAs == IF response.function_call = PyNone THEN "" ELSE response.function_call.name

\* C25: on the branch that parses the reply text, a reply whose text contains
\* "analyze_changes" is an analyze_changes invocation, one that contains
\* "format_commit_message" and not "analyze_changes" is a format_commit_message
\* invocation, and one that contains neither is final text.
C25_ClassifiedByText ==
    (api_type # "openai" /\ last_reply # PyNone /\ last_reply.content # <<>>) =>
        LET text == last_reply.content[1].text
        IN  ClassifiedAs =
               IF Contains(text, "analyze_changes") THEN "analyze_changes"
               ELSE IF Contains(text, "format_commit_message") THEN "format_commit_message"
               ELSE ""

====
